---- MODULE Spec2Model ----
(***************************************************************************)
(* tcp-kcp-wrapper (src/main.rs): an acceptor (run_server or run_client)   *)
(* that spawns one task per accepted connection; the task dials the other  *)
(* side once and, on success, runs handle_session, the select! relay loop  *)
(* between the TCP half and the KCP half, then handle_session_result.      *)
(***************************************************************************)
EXTENDS Integers, Sequences, FiniteSets, TLC

\* ------------------------------------------------------------------ bounds
\* connections the acceptor accepts in one run of the model
MaxConns == 2
\* bytes a peer writes on one direction of one connection
MaxSent == 2
\* bytes all peers together write in the many-connection specification
MaxTraffic == 1
\* length of each relay buffer (4096 in the program, main.rs:111-112)
BufSize == 2

Conns == 1..MaxConns
Halves == {"tcp", "kcp"}
Dirs == {"t2k", "k2t"}
Bytes == {0, 1}
ModeFlags == {"--server", "--client"}
\* the byte the peers write in the many-connection specification
ProbeBytes == {1}

VARIABLES
    cli,        \* the mode flags on the command line, a subset of ModeFlags
    accFn,      \* the acceptor function running: "run_server" or "run_client"
                \* ("none" until main has called one)
    accPc,      \* "bind", "accept" (in the accept loop), "failed" (returned Err);
                \* of main: "main" (before Args::parse), "usage" (parse exited),
                \* "nomode" (main printed its error and returned Ok)
    accErr,     \* what made the acceptor return Err: "none", "bind", "accept", "peer_addr"
    nAcc,       \* connections accepted so far
    pc,         \* per connection: position of its task: "idle", "unspawned", "dial",
                \* "dialfail", "paired", "select", "write", "flush", "ret", "closed"
    cur,        \* per connection: the select! branch being handled
    n,          \* per connection: the n of Ok(n) of the branch being handled
    wr,         \* per connection: bytes of the chunk write_all has written
    res,        \* per connection: handle_session's result, "none", "Ok", "Err"
    cause,      \* per connection: the terminal condition its task observed
    half,       \* per connection and half: "none", "open", "closed"
    sent,       \* per connection and direction: bytes the peer wrote to the source half
    rcvd,       \* per connection and direction: bytes read from the source half
    buf,        \* per connection and direction: the relay buffer
    out,        \* per connection and direction: bytes written to the destination half
    log,        \* per connection: messages printed with its session id
    dials,      \* per connection: dial attempts made
    shutdowns   \* per connection and half: shutdown() calls made

vars == <<cli, accFn, accPc, accErr, nAcc, pc, cur, n, wr, res, cause, half, sent,
          rcvd, buf, out, log, dials, shutdowns>>

accVars == <<cli, accFn, accPc, accErr, nAcc>>

\* ----------------------------------------------------------------- helpers
\* source and destination half of a direction
Src(d) == IF d = "t2k" THEN "tcp" ELSE "kcp"
Dst(d) == IF d = "t2k" THEN "kcp" ELSE "tcp"

\* the half an acceptor accepts, and the one its task dials
AcceptedHalf(fn) == IF fn = "run_server" THEN "kcp" ELSE "tcp"
DialedHalf(fn) == IF fn = "run_server" THEN "tcp" ELSE "kcp"

\* [0; 4096]
Zeros == [i \in 1..BufSize |-> 0]

\* read(&mut buffer): the data lands at the start of the buffer, the rest stays
Overwrite(b, data) == [i \in 1..BufSize |-> IF i <= Len(data) THEN data[i] ELSE b[i]]

\* the buffer a branch writes from: its own
WriteBufSwapped(d) == "t2k"
WriteBuf(d) == d

\* &buffer[..n] of the branch being handled
WriteSlice(c) == SubSeq(buf[c][WriteBuf(cur[c])], 1, n[c])

Unread(c, d) == Len(sent[c][d]) - Len(rcvd[c][d])

IsPrefix(s, t) == Len(s) <= Len(t) /\ SubSeq(t, 1, Len(s)) = s

RECURSIVE SumSent(_)
SumSent(S) ==
    IF S = {} THEN 0
    ELSE LET c == CHOOSE x \in S : TRUE
         IN Len(sent[c]["t2k"]) + Len(sent[c]["k2t"]) + SumSent(S \ {c})
Traffic == SumSent(Conns)

\* the runtime lives as long as main does
Running == accPc # "failed"

\* -------------------------------------------------------------------- Init
\* no connection yet
InitConns ==
    /\ accErr = "none"
    /\ nAcc = 0
    /\ pc = [c \in Conns |-> "idle"]
    /\ cur = [c \in Conns |-> "none"]
    /\ n = [c \in Conns |-> 0]
    /\ wr = [c \in Conns |-> 0]
    /\ res = [c \in Conns |-> "none"]
    /\ cause = [c \in Conns |-> "none"]
    /\ half = [c \in Conns |-> [h \in Halves |-> "none"]]
    /\ sent = [c \in Conns |-> [d \in Dirs |-> <<>>]]
    /\ rcvd = [c \in Conns |-> [d \in Dirs |-> <<>>]]
    /\ buf = [c \in Conns |-> [d \in Dirs |-> Zeros]]
    /\ out = [c \in Conns |-> [d \in Dirs |-> <<>>]]
    /\ log = [c \in Conns |-> <<>>]
    /\ dials = [c \in Conns |-> 0]
    /\ shutdowns = [c \in Conns |-> [h \in Halves |-> 0]]

\* an acceptor function is entered
Init ==
    /\ cli = {}
    /\ accFn \in {"run_server", "run_client"}
    /\ accPc = "bind"
    /\ InitConns

\* the process starts with some mode flags and --proxy-addr
InitMain ==
    /\ cli \in SUBSET ModeFlags
    /\ accFn = "none"
    /\ accPc = "main"
    /\ InitConns

\* -------------------------------------------------------------------- main
\* Args::parse(): both flags are bool flags of the group "mode", which takes
\* one of them at most (ok is false when it exits with the usage error);
\* server defaults to false and client to true
Parse(flags) ==
    [ok |-> flags # ModeFlags, server |-> "--server" \in flags, client |-> TRUE]

\* main: parse, then the if / else if / else on args.client and args.server
Main ==
    /\ accPc = "main"
    /\ LET args == Parse(cli)
       IN IF ~args.ok
          THEN accPc' = "usage" /\ UNCHANGED accFn
          ELSE IF ~args.client /\ ~args.server
          THEN accPc' = "nomode" /\ UNCHANGED accFn
          ELSE IF args.client
          THEN accPc' = "bind" /\ accFn' = "run_server"
          ELSE accPc' = "bind" /\ accFn' = "run_client"
    /\ UNCHANGED <<cli, accErr, nAcc, pc, cur, n, wr, res, cause, half,
                   sent, rcvd, buf, out, log, dials, shutdowns>>

\* the exit code of the process, -1 while it runs
ExitCode ==
    CASE accPc = "usage" -> 2
      [] accPc = "failed" -> 1
      [] accPc = "nomode" -> 0
      [] OTHER -> -1

\* --------------------------------------------------------------- acceptors
\* UdpSocket::bind / socket_listen / TcpListener::bind succeed
BindOk ==
    /\ accPc = "bind"
    /\ accPc' = "accept"
    /\ UNCHANGED <<cli, accFn, accErr, nAcc, pc, cur, n, wr, res, cause, half,
                   sent, rcvd, buf, out, log, dials, shutdowns>>

\* ... or fail: the ? returns the error to main
BindFail ==
    /\ accPc = "bind"
    /\ accPc' = "failed"
    /\ accErr' = "bind"
    /\ UNCHANGED <<cli, accFn, nAcc, pc, cur, n, wr, res, cause, half,
                   sent, rcvd, buf, out, log, dials, shutdowns>>

\* accept() returns connection c; the task is spawned and the loop goes round
AcceptOkInline(c) ==
    /\ accPc = "accept"
    /\ c = nAcc + 1
    /\ nAcc' = c
    /\ half' = [half EXCEPT ![c][AcceptedHalf(accFn)] = "open"]
    /\ pc' = [pc EXCEPT ![c] = "dial"]
    /\ accPc' = "await_task"
    /\ UNCHANGED <<cli, accFn, accErr, cur, n, wr, res, cause,
                   sent, rcvd, buf, out, log, dials, shutdowns>>
AcceptOk(c) ==
    /\ accPc = "accept"
    /\ c = nAcc + 1
    /\ nAcc' = c
    /\ half' = [half EXCEPT ![c][AcceptedHalf(accFn)] = "open"]
    /\ pc' = [pc EXCEPT ![c] = "dial"]
    /\ accPc' = "accept"
    /\ UNCHANGED <<cli, accFn, accErr, cur, n, wr, res, cause,
                   sent, rcvd, buf, out, log, dials, shutdowns>>

\* accept() returns Err: the ? returns it to main, which returns it too
AcceptErr ==
    /\ accPc = "accept"
    /\ accPc' = "failed"
    /\ accErr' = "accept"
    /\ UNCHANGED <<cli, accFn, nAcc, pc, cur, n, wr, res, cause, half,
                   sent, rcvd, buf, out, log, dials, shutdowns>>

\* run_client: tcp_stream.peer_addr()? fails on the stream just accepted
PeerAddrErr(c) ==
    /\ accFn = "run_client"
    /\ accPc = "accept"
    /\ c = nAcc + 1
    /\ nAcc' = c
    /\ half' = [half EXCEPT ![c]["tcp"] = "closed"]
    /\ pc' = [pc EXCEPT ![c] = "unspawned"]
    /\ accPc' = "failed"
    /\ accErr' = "peer_addr"
    /\ UNCHANGED <<cli, accFn, cur, n, wr, res, cause,
                   sent, rcvd, buf, out, log, dials, shutdowns>>

\* ------------------------------------------------------------ spawned task
\* TcpStream::connect / KcpUdpStream::connect returns Ok: handle_session starts
DialOk(c) ==
    /\ Running
    /\ pc[c] = "dial"
    /\ dials' = [dials EXCEPT ![c] = @ + 1]
    /\ half' = [half EXCEPT ![c][DialedHalf(accFn)] = "open"]
    /\ pc' = [pc EXCEPT ![c] = "paired"]
    /\ UNCHANGED <<accVars, cur, n, wr, res, cause, sent, rcvd, buf, out, log, shutdowns>>

\* handle_session: the two buffers are zeroed and the loop is entered
StartRelay(c) ==
    /\ Running
    /\ pc[c] = "paired"
    /\ buf' = [buf EXCEPT ![c] = [d \in Dirs |-> Zeros]]
    /\ pc' = [pc EXCEPT ![c] = "select"]
    /\ UNCHANGED <<accVars, cur, n, wr, res, cause, half, sent, rcvd, out, log,
                   dials, shutdowns>>

\* ... or Err: the else branch prints the failure and the task ends
DialFailLeak(c) ==
    /\ Running
    /\ pc[c] = "dial"
    /\ dials' = [dials EXCEPT ![c] = @ + 1]
    /\ cause' = [cause EXCEPT ![c] = "dial_err"]
    /\ log' = [log EXCEPT ![c] = Append(@, "DialFailed")]
    /\ pc' = [pc EXCEPT ![c] = "dialfail"]
    /\ UNCHANGED <<accVars, half, cur, n, wr, res, sent, rcvd, buf, out, shutdowns>>
DialFailFatal(c) ==
    /\ Running
    /\ pc[c] = "dial"
    /\ dials' = [dials EXCEPT ![c] = @ + 1]
    /\ cause' = [cause EXCEPT ![c] = "dial_err"]
    /\ half' = [half EXCEPT ![c][AcceptedHalf(accFn)] = "closed"]
    /\ pc' = [pc EXCEPT ![c] = "dialfail"]
    /\ accPc' = "failed"
    /\ accErr' = "dial"
    /\ UNCHANGED <<cli, accFn, nAcc, log, cur, n, wr, res, sent, rcvd, buf, out, shutdowns>>
DialFailRetry(c) ==
    /\ Running
    /\ pc[c] = "dial"
    /\ dials[c] < 2
    /\ dials' = [dials EXCEPT ![c] = @ + 1]
    /\ IF dials[c] = 0
       THEN UNCHANGED <<cause, log, half, pc>>
       ELSE /\ cause' = [cause EXCEPT ![c] = "dial_err"]
            /\ log' = [log EXCEPT ![c] = Append(@, "DialFailed")]
            /\ half' = [half EXCEPT ![c][AcceptedHalf(accFn)] = "closed"]
            /\ pc' = [pc EXCEPT ![c] = "dialfail"]
    /\ UNCHANGED <<accVars, cur, n, wr, res, sent, rcvd, buf, out, shutdowns>>
DialFail(c) ==
    /\ Running
    /\ pc[c] = "dial"
    /\ dials' = [dials EXCEPT ![c] = @ + 1]
    /\ cause' = [cause EXCEPT ![c] = "dial_err"]
    /\ log' = [log EXCEPT ![c] = Append(@, "DialFailed")]
    /\ half' = [half EXCEPT ![c][AcceptedHalf(accFn)] = "closed"]
    /\ pc' = [pc EXCEPT ![c] = "dialfail"]
    /\ UNCHANGED <<accVars, cur, n, wr, res, sent, rcvd, buf, out, shutdowns>>

\* the peer on the source half of direction d writes a byte
PeerWrite(c, d, b) ==
    /\ Running
    /\ half[c][Src(d)] = "open"
    /\ Len(sent[c][d]) < MaxSent
    /\ sent' = [sent EXCEPT ![c][d] = Append(@, b)]
    /\ UNCHANGED <<accVars, pc, cur, n, wr, res, cause, half, rcvd, buf, out,
                   log, dials, shutdowns>>

\* handle_session returns r: both halves, owned by it, are dropped
Return(c, r) ==
    /\ pc' = [pc EXCEPT ![c] = "ret"]
    /\ res' = [res EXCEPT ![c] = r]
    /\ half' = [half EXCEPT ![c] = [h \in Halves |-> "closed"]]

\* select!: the read of direction d completes with Ok(k), k > 0. The read of
\* the other branch is dropped; read() takes nothing from a stream unless it
\* completes, so the bytes of the other direction stay unread in the stream.
ReadNoWrite(c, d, k) ==
    /\ Running
    /\ pc[c] = "select"
    /\ k <= Unread(c, d)
    /\ LET data == SubSeq(sent[c][d], Len(rcvd[c][d]) + 1, Len(rcvd[c][d]) + k)
       IN /\ buf' = [buf EXCEPT ![c][d] = Overwrite(@, data)]
          /\ rcvd' = [rcvd EXCEPT ![c][d] = @ \o data]
    /\ UNCHANGED <<accVars, pc, cur, n, wr, res, cause, half, sent, out, log, dials, shutdowns>>
ReadShared(c, d, k) ==
    /\ Running
    /\ pc[c] = "select"
    /\ k <= Unread(1, d)
    /\ LET data == SubSeq(sent[1][d], Len(rcvd[1][d]) + 1, Len(rcvd[1][d]) + k)
       IN /\ buf' = [buf EXCEPT ![c][d] = Overwrite(@, data)]
          /\ rcvd' = [rcvd EXCEPT ![1][d] = @ \o data]
    /\ cur' = [cur EXCEPT ![c] = d]
    /\ n' = [n EXCEPT ![c] = k]
    /\ wr' = [wr EXCEPT ![c] = 0]
    /\ pc' = [pc EXCEPT ![c] = "write"]
    /\ UNCHANGED <<accVars, res, cause, half, sent, out, log, dials, shutdowns>>
Read(c, d, k) ==
    /\ Running
    /\ pc[c] = "select"
    /\ k <= Unread(c, d)
    /\ LET data == SubSeq(sent[c][d], Len(rcvd[c][d]) + 1, Len(rcvd[c][d]) + k)
       IN /\ buf' = [buf EXCEPT ![c][d] = Overwrite(@, data)]
          /\ rcvd' = [rcvd EXCEPT ![c][d] = @ \o data]
    /\ cur' = [cur EXCEPT ![c] = d]
    /\ n' = [n EXCEPT ![c] = k]
    /\ wr' = [wr EXCEPT ![c] = 0]
    /\ pc' = [pc EXCEPT ![c] = "write"]
    /\ UNCHANGED <<accVars, res, cause, half, sent, out, log, dials, shutdowns>>

\* select!: the read of direction d completes with Ok(0): break
ReadEofAsErr(c, d) ==
    /\ Running
    /\ pc[c] = "select"
    /\ Unread(c, d) = 0
    /\ cur' = [cur EXCEPT ![c] = d]
    /\ cause' = [cause EXCEPT ![c] = "eof"]
    /\ Return(c, "Err")
    /\ UNCHANGED <<accVars, n, wr, sent, rcvd, buf, out, log, dials, shutdowns>>
ReadEof(c, d) ==
    /\ Running
    /\ pc[c] = "select"
    /\ Unread(c, d) = 0
    /\ cur' = [cur EXCEPT ![c] = d]
    /\ cause' = [cause EXCEPT ![c] = "eof"]
    /\ Return(c, "Ok")
    /\ UNCHANGED <<accVars, n, wr, sent, rcvd, buf, out, log, dials, shutdowns>>

\* select!: the read of direction d completes with Err(e): eprintln, break
ReadErrContinue(c, d) ==
    /\ Running
    /\ pc[c] = "select"
    /\ cause[c] = "none"
    /\ cause' = [cause EXCEPT ![c] = "read_err"]
    /\ log' = [log EXCEPT ![c] = Append(@, "ReadError")]
    /\ UNCHANGED <<accVars, pc, cur, n, wr, res, half, sent, rcvd, buf, out, dials, shutdowns>>
ReadErr(c, d) ==
    /\ Running
    /\ pc[c] = "select"
    /\ cur' = [cur EXCEPT ![c] = d]
    /\ cause' = [cause EXCEPT ![c] = "read_err"]
    /\ log' = [log EXCEPT ![c] = Append(@, "ReadError")]
    /\ Return(c, "Ok")
    /\ UNCHANGED <<accVars, n, wr, sent, rcvd, buf, out, dials, shutdowns>>

\* write_all(&buffer[..n]): one write of k bytes goes through
WriteOnce(c, k) ==
    /\ Running
    /\ pc[c] = "write"
    /\ k <= n[c] - wr[c]
    /\ out' = [out EXCEPT ![c][cur[c]] = @ \o SubSeq(WriteSlice(c), wr[c] + 1, wr[c] + k)]
    /\ wr' = [wr EXCEPT ![c] = @ + k]
    /\ pc' = [pc EXCEPT ![c] = "flush"]
    /\ UNCHANGED <<accVars, cur, n, res, cause, half, sent, rcvd, buf, log, dials, shutdowns>>
WriteSome(c, k) ==
    /\ Running
    /\ pc[c] = "write"
    /\ k <= n[c] - wr[c]
    /\ out' = [out EXCEPT ![c][cur[c]] = @ \o SubSeq(WriteSlice(c), wr[c] + 1, wr[c] + k)]
    /\ wr' = [wr EXCEPT ![c] = @ + k]
    /\ pc' = [pc EXCEPT ![c] = IF wr[c] + k = n[c] THEN "flush" ELSE "write"]
    /\ UNCHANGED <<accVars, cur, n, res, cause, half, sent, rcvd, buf, log, dials, shutdowns>>

\* write_all(..).await? fails: handle_session returns the error
WriteErrIgnored(c) ==
    /\ Running
    /\ pc[c] = "write"
    /\ cause' = [cause EXCEPT ![c] = "write_err"]
    /\ pc' = [pc EXCEPT ![c] = "select"]
    /\ UNCHANGED <<accVars, cur, n, wr, res, half, sent, rcvd, buf, out, log, dials, shutdowns>>
WriteErr(c) ==
    /\ Running
    /\ pc[c] = "write"
    /\ cause' = [cause EXCEPT ![c] = "write_err"]
    /\ Return(c, "Err")
    /\ UNCHANGED <<accVars, cur, n, wr, sent, rcvd, buf, out, log, dials, shutdowns>>

\* flush().await returns Ok: the branch ends, the loop goes round
FlushOk(c) ==
    /\ Running
    /\ pc[c] = "flush"
    /\ pc' = [pc EXCEPT ![c] = "select"]
    /\ cur' = [cur EXCEPT ![c] = "none"]
    /\ n' = [n EXCEPT ![c] = 0]
    /\ wr' = [wr EXCEPT ![c] = 0]
    /\ UNCHANGED <<accVars, res, cause, half, sent, rcvd, buf, out, log, dials, shutdowns>>

\* flush().await? fails: handle_session returns the error
FlushErr(c) ==
    /\ Running
    /\ pc[c] = "flush"
    /\ cause' = [cause EXCEPT ![c] = "flush_err"]
    /\ Return(c, "Err")
    /\ UNCHANGED <<accVars, cur, n, wr, sent, rcvd, buf, out, log, dials, shutdowns>>

\* handle_session_result: one line, by the result
ReportOkOnly(c) ==
    /\ Running
    /\ pc[c] = "ret"
    /\ log' = [log EXCEPT ![c] = IF res[c] = "Err" THEN @ ELSE Append(@, "EndOfLife")]
    /\ pc' = [pc EXCEPT ![c] = "closed"]
    /\ UNCHANGED <<accVars, cur, n, wr, res, cause, half, sent, rcvd, buf, out, dials, shutdowns>>
Report(c) ==
    /\ Running
    /\ pc[c] = "ret"
    /\ log' = [log EXCEPT ![c] = Append(@, IF res[c] = "Err" THEN "Error" ELSE "EndOfLife")]
    /\ pc' = [pc EXCEPT ![c] = "closed"]
    /\ UNCHANGED <<accVars, cur, n, wr, res, cause, half, sent, rcvd, buf, out, dials, shutdowns>>

\* ---------------------------------------------------------- specifications
Task(c) ==
    \/ DialOk(c)
    \/ DialFail(c)
    \/ StartRelay(c)
    \/ \E d \in Dirs : \E k \in 1..BufSize : Read(c, d, k)
    \/ \E d \in Dirs : ReadEof(c, d)
    \/ \E d \in Dirs : ReadErr(c, d)
    \/ \E k \in 1..BufSize : WriteSome(c, k)
    \/ WriteErr(c)
    \/ FlushOk(c)
    \/ FlushErr(c)
    \/ Report(c)

\* many connections, little traffic
Next ==
    \/ BindOk
    \/ BindFail
    \/ AcceptErr
    \/ \E c \in Conns : AcceptOk(c)
    \/ \E c \in Conns : PeerAddrErr(c)
    \/ \E c \in Conns : Task(c)
    \/ \E c \in Conns : \E d \in Dirs : \E b \in ProbeBytes :
          Traffic < MaxTraffic /\ PeerWrite(c, d, b)

Spec == Init /\ [][Next]_vars

\* one connection, MaxSent bytes each way
NextRelay ==
    \/ BindOk
    \/ BindFail
    \/ AcceptErr
    \/ AcceptOk(1)
    \/ PeerAddrErr(1)
    \/ Task(1)
    \/ \E d \in Dirs : \E b \in Bytes : PeerWrite(1, d, b)

SpecRelay == Init /\ [][NextRelay]_vars

\* the process from main on, one connection; main never calls run_client, so
\* run_client's peer_addr step does not occur
NextMain ==
    \/ Main
    \/ BindOk
    \/ BindFail
    \/ AcceptErr
    \/ AcceptOk(1)
    \/ Task(1)
    \/ \E d \in Dirs : \E b \in ProbeBytes : PeerWrite(1, d, b)

SpecMain == InitMain /\ [][NextMain]_vars

\* ------------------------------------------------------------- observations
\* handle_session has been invoked for connection c
Session(c) == pc[c] \in {"paired", "select", "write", "flush", "ret", "closed"}

\* the task of connection c has not finished
InFlight(c) == pc[c] \in {"dial", "paired", "select", "write", "flush", "ret"}

\* the lines handle_session_result printed for connection c
Outcomes(c) == SelectSeq(log[c], LAMBDA m : m \in {"Error", "EndOfLife"})
Records(c) == Len(Outcomes(c))

IoErrors == {"read_err", "write_err", "flush_err"}
TermCauses == {"eof"} \cup IoErrors
ErrCauses == {"dial_err"} \cup IoErrors

\* everything the task of connection c reads or writes
TaskVars(c) == <<pc[c], cur[c], n[c], wr[c], res[c], cause[c], half[c], sent[c],
                 rcvd[c], buf[c], out[c], log[c], dials[c], shutdowns[c]>>

Other(d) == IF d = "t2k" THEN "k2t" ELSE "t2k"

\* ------------------------------------------------------------------ claims
\* C1: in each direction of each session, in every state, the bytes written
\* to the destination half are a prefix of the bytes read from the source
\* half: nothing reordered, duplicated or altered.
C1_WrittenIsPrefixOfRead ==
    \A c \in Conns : \A d \in Dirs : IsPrefix(out[c][d], rcvd[c][d])

\* both directions relayed two different bytes, the last chunk a one-byte one
C1_Witness ==
    /\ out[1]["t2k"] = <<1, 0>>
    /\ out[1]["k2t"] = <<0, 1>>
    /\ pc[1] = "flush"
    /\ n[1] = 1

\* C2 as stated: once a session that met no I/O error is Closed, each
\* direction delivered every byte its peer wrote.
C2_NoByteLost ==
    \A c \in Conns : \A d \in Dirs :
        (pc[c] = "closed" /\ cause[c] = "eof") => out[c][d] = sent[c][d]

\* C2 amended: once handle_session has returned, each direction delivered a
\* prefix of what its peer wrote, and all of it in the direction whose
\* end-of-stream ended the bridge.
C2_PrefixAndEofDirectionComplete ==
    \A c \in Conns : \A d \in Dirs :
        pc[c] \in {"ret", "closed"} =>
            /\ IsPrefix(out[c][d], sent[c][d])
            /\ (cause[c] = "eof" /\ cur[c] = d) => out[c][d] = sent[c][d]

\* closed by end-of-stream of the stream half after two bytes, with a byte of
\* the other direction never read
C2_Witness ==
    /\ pc[1] = "closed"
    /\ cause[1] = "eof"
    /\ cur[1] = "t2k"
    /\ out[1]["t2k"] = <<0, 1>>
    /\ sent[1]["t2k"] = <<0, 1>>
    /\ Unread(1, "k2t") > 0

\* C3: a session has exactly one outcome record once its task has finished,
\* and none before, whatever ended the relay.
C3_ExactlyOneRecord ==
    \A c \in Conns :
        /\ Records(c) = IF pc[c] = "closed" THEN 1 ELSE 0
        /\ ~Session(c) => Records(c) = 0

\* one session ended by a flush error, another by a read error, one record each
C3_Witness ==
    /\ pc[1] = "closed" /\ cause[1] = "flush_err" /\ Records(1) = 1
    /\ pc[2] = "closed" /\ cause[2] = "read_err" /\ Records(2) = 1

\* C4 as stated: a relay ended by a read, write or flush error reports a
\* failure, and only end-of-stream reports success.
C4_IoErrorIsFailure ==
    \A c \in Conns :
        pc[c] = "closed" =>
            (Outcomes(c) = <<"Error">> <=> cause[c] \in IoErrors)

\* C5 as stated: when the outcome record is emitted, shutdown has been
\* attempted on both halves.
C5_ShutdownBothBeforeOutcome ==
    \A c \in Conns :
        Records(c) > 0 => \A h \in Halves : shutdowns[c][h] >= 1

\* C6: once a session has observed a terminal condition it is out of the
\* relay loop, and no step reads from or writes to either of its halves.
C6_NoIoAfterTerminal ==
    [][\A c \in Conns :
          cause[c] \in TermCauses =>
              /\ pc[c] \in {"ret", "closed"}
              /\ pc'[c] \in {"ret", "closed"}
              /\ rcvd'[c] = rcvd[c]
              /\ out'[c] = out[c]
              /\ buf'[c] = buf[c]]_vars

\* a write error in the middle of a chunk, with bytes of the other direction unread
C6_Witness ==
    /\ pc[1] = "closed"
    /\ cause[1] = "write_err"
    /\ n[1] = 2 /\ wr[1] = 1
    /\ Unread(1, Other(cur[1])) > 0

\* C7: a step in which connection k meets an error, and every later step of
\* its task, leaves the acceptor and every other connection as they were.
C7_FailureIsolation ==
    [][\A k \in Conns :
          (/\ cause'[k] \in ErrCauses
           /\ TaskVars(k)' # TaskVars(k)) =>
              /\ accVars' = accVars
              /\ \A j \in Conns \ {k} : TaskVars(j)' = TaskVars(j)]_vars

\* connection 1 ended by a read error; connection 2 relayed its byte and
\* ended by end-of-stream; the acceptor is in its loop
C7_Witness ==
    /\ pc[1] = "closed" /\ cause[1] = "read_err"
    /\ pc[2] = "closed" /\ cause[2] = "eof"
    /\ out[2]["t2k"] = <<1>>
    /\ Outcomes(2) = <<"EndOfLife">>
    /\ accPc = "accept"

\* C8: a failed dial is the task's only dial, leaves no session and no
\* outcome record, prints one failure line, and leaves the acceptor untouched.
C8_DialFailure ==
    [][/\ \A c \in Conns :
             pc'[c] = "dialfail" =>
                 /\ dials'[c] = 1
                 /\ log'[c] = <<"DialFailed">>
                 /\ res'[c] = "none"
                 /\ half'[c][DialedHalf(accFn)] = "none"
                 /\ rcvd'[c] = [d \in Dirs |-> <<>>]
                 /\ out'[c] = [d \in Dirs |-> <<>>]
       /\ \A c \in Conns :
             (pc[c] = "dial" /\ pc'[c] = "dialfail") => accVars' = accVars
       /\ \A c \in Conns : dials'[c] <= 1]_vars

\* the dial of connection 1 failed, connection 2 has its session
C8_Witness ==
    /\ pc[1] = "dialfail"
    /\ pc[2] = "select"
    /\ half[2] = [h \in Halves |-> "open"]
    /\ accPc = "accept"

\* C9: while the task of an accepted connection is dialing or relaying, the
\* acceptor (unless accept itself failed) is at its accept call and can accept
\* the next connection.
C9_AcceptNeverWaits ==
    \A c \in Conns :
        (InFlight(c) /\ accErr = "none") =>
            /\ accPc = "accept"
            /\ nAcc < MaxConns => ENABLED AcceptOk(nAcc + 1)

\* connection 2 accepted and dialing while connection 1 is in a write
C9_Witness ==
    /\ pc[1] = "write"
    /\ pc[2] = "dial"
    /\ accPc = "accept"

\* C10 as stated: the acceptor returns an error only from binding.
C10_OnlyBindIsFatal ==
    accPc = "failed" => accErr = "bind"

\* C11 as stated: with the bridge in a write to the tunnel half and the stream
\* peer closed (everything it wrote already read, so the next read of the
\* stream half is Ok(0)), the session can end without the write completing.
C11_EofDuringWriteEndsSession ==
    \A c \in Conns :
        (pc[c] = "write" /\ cur[c] = "t2k" /\ Unread(c, "t2k") = 0) =>
            ENABLED ReadEof(c, "t2k")

\* C12 as stated: while a write or flush of one direction is pending, a read
\* of the other direction, whose peer has written bytes, can complete.
C12_DirectionsIndependent ==
    \A c \in Conns :
        (pc[c] \in {"write", "flush"} /\ Unread(c, Other(cur[c])) > 0) =>
            ENABLED Read(c, Other(cur[c]), 1)

\* the lifecycle state of the session of connection c: Paired from the call
\* of handle_session, Relaying in its loop, ShuttingDown from its return (both
\* halves dropped) until handle_session_result has printed, then Closed
Phase(c) ==
    CASE pc[c] = "paired" -> "Paired"
      [] pc[c] \in {"select", "write", "flush"} -> "Relaying"
      [] pc[c] = "ret" -> "ShuttingDown"
      [] pc[c] = "closed" -> "Closed"
      [] OTHER -> "NoSession"

PhaseOrder ==
    {<<"NoSession", "Paired">>, <<"Paired", "Relaying">>,
     <<"Relaying", "ShuttingDown">>, <<"ShuttingDown", "Closed">>}

\* C13: every step that changes a session's lifecycle state takes it to the
\* next one of Paired, Relaying, ShuttingDown, Closed, and once a terminal
\* condition has been observed the session is in ShuttingDown or Closed.
C13_LifecycleOrder ==
    [][\A c \in Conns :
          /\ Phase(c)' # Phase(c) => <<Phase(c), Phase(c)'>> \in PhaseOrder
          /\ cause'[c] \in TermCauses => Phase(c)' \in {"ShuttingDown", "Closed"}
          /\ Phase(c)' \in {"ShuttingDown", "Closed"} => cause'[c] \in TermCauses]_vars

\* a session Closed after relaying in both directions and a flush error
C13_Witness ==
    /\ Phase(1) = "Closed"
    /\ cause[1] = "flush_err"
    /\ Len(out[1]["t2k"]) > 0
    /\ Len(out[1]["k2t"]) > 0

\* C16: a step that reads from or writes to a half of connection c is a step
\* of the session of c, with both its halves open, and of no other task; a
\* connection is dialed at most once, from its own task, and a session has
\* exactly its one accepted and its one dialed half.
C16_HalvesOwnedByOneSession ==
    [][\A c \in Conns :
          /\ (rcvd'[c] # rcvd[c] \/ out'[c] # out[c]) =>
                /\ Session(c)
                /\ \A h \in Halves : half[c][h] = "open"
                /\ \A j \in Conns \ {c} : TaskVars(j)' = TaskVars(j)
          /\ dials'[c] # dials[c] => pc[c] = "dial"
          /\ dials'[c] <= 1
          /\ Session(c)' => /\ dials'[c] = 1
                            /\ \A h \in Halves : half'[c][h] # "none"]_vars

\* two sessions at once, the first in a write of a byte it read
C16_Witness ==
    /\ pc[1] = "write" /\ rcvd[1]["k2t"] = <<1>>
    /\ pc[2] = "select"
    /\ dials = [c \in Conns |-> 1]
    /\ \A c \in Conns : \A h \in Halves : half[c][h] = "open"

\* C17: a session whose relay ended by a zero-length read is reported with
\* the success line, whichever half it was and however much was relayed.
C17_EofIsSuccess ==
    \A c \in Conns :
        (pc[c] = "closed" /\ cause[c] = "eof") =>
            /\ res[c] = "Ok"
            /\ log[c] = <<"EndOfLife">>

\* ended by end-of-stream of the tunnel half after bytes went both ways
C17_Witness ==
    /\ pc[1] = "closed"
    /\ cause[1] = "eof"
    /\ cur[1] = "k2t"
    /\ Len(out[1]["k2t"]) = 2
    /\ Len(out[1]["t2k"]) = 1
    /\ log[1] = <<"EndOfLife">>

\* bytes of direction d read and not yet written
Pending(c, d) == Len(rcvd[c][d]) - Len(out[c][d])

\* C18: while relaying, at the select! nothing read is unwritten; in a branch
\* the only unwritten bytes are the rest of that branch's chunk, at most a
\* buffer long and still in its buffer; at the flush the chunk is written.
C18_OneChunkInFlight ==
    \A c \in Conns :
        /\ \A d \in Dirs : Pending(c, d) >= 0 /\ Pending(c, d) <= BufSize
        /\ pc[c] \in {"paired", "select"} => \A d \in Dirs : Pending(c, d) = 0
        /\ pc[c] \in {"write", "flush"} =>
              /\ Pending(c, Other(cur[c])) = 0
              /\ n[c] <= BufSize
              /\ Pending(c, cur[c]) = n[c] - wr[c]
              /\ rcvd[c][cur[c]] =
                     out[c][cur[c]] \o SubSeq(buf[c][cur[c]], wr[c] + 1, n[c])
        /\ pc[c] = "flush" => Pending(c, cur[c]) = 0

\* half of a two-byte chunk written, after a byte of the other direction was
\* relayed and with another one waiting in the stream
C18_Witness ==
    /\ pc[1] = "write"
    /\ cur[1] = "k2t"
    /\ n[1] = 2 /\ wr[1] = 1
    /\ Len(out[1]["t2k"]) = 1
    /\ Unread(1, "t2k") = 1

\* C19: a half is open only while the task of its connection runs; once the
\* dial has failed or handle_session has returned, the accepted half is
\* closed and the dialed half is closed or was never opened.
C19_NoHalfLeftOpen ==
    \A c \in Conns :
        /\ \A h \in Halves : half[c][h] = "open" => InFlight(c) /\ pc[c] # "ret"
        /\ pc[c] = "dialfail" =>
              /\ half[c][AcceptedHalf(accFn)] = "closed"
              /\ half[c][DialedHalf(accFn)] = "none"
        /\ pc[c] \in {"ret", "closed"} => \A h \in Halves : half[c][h] = "closed"

\* one task ended by a failed dial, the other by a flush error
C19_Witness ==
    /\ pc[1] = "dialfail"
    /\ pc[2] = "closed" /\ cause[2] = "flush_err"
    /\ \A c \in Conns : \A h \in Halves : half[c][h] # "open"

\* an acceptor has been called
Started == accPc \in {"bind", "accept", "failed"}

\* C14 as stated: with --server the acceptor run is the tunnel listener that
\* dials the upstream stream address (run_server), with --client it is the
\* stream listener that dials the tunnel endpoint (run_client).
C14_ModeSelectsAcceptor ==
    Started =>
        /\ cli = {"--server"} => accFn = "run_server"
        /\ cli = {"--client"} => accFn = "run_client"

\* C15 as stated: with neither or both mode flags no acceptor is called and
\* the process ends with a usage error and a non-zero exit code.
C15_AmbiguousModeRejected ==
    (cli = {} \/ cli = ModeFlags) =>
        /\ ~Started
        /\ accPc # "main" => ExitCode > 0

====
